---- MODULE Spec2Model ----
(***************************************************************************)
(* Transfinite interpolation (Gordon-Hall) of a deformed quad mesh, as     *)
(* computed by the notebook 2_Quad_mesh_TFI_intro.ipynb.                   *)
(*                                                                         *)
(* The notebook is a linear script: it fixes NX and NZ, expects the four   *)
(* boundary curves Xb, Xt, Xl, Xr to be bound in the namespace, samples    *)
(* the unit square with np.linspace, builds the logical grid with          *)
(* np.meshgrid, allocates X and Z with np.zeros and fills them in a        *)
(* double loop.  Every statement is one action; an exception ends the      *)
(* cell and leaves the namespace as it was at the raise.                   *)
(*                                                                         *)
(* Numbers are exact rationals <<numerator, denominator>> in lowest terms  *)
(* with a positive denominator, so that a statement about values is a      *)
(* statement about the formula and not about rounding.                     *)
(***************************************************************************)
EXTENDS Integers, Sequences, FiniteSets, TLC

VARIABLES
    NX, NZ,             \* the resolution (cell "Define parameters")
    Xb, Xt, Xl, Xr,     \* the four boundary curves (cell "Define parametric curves")
    pc,                 \* the statement the interpolation cell is at
    defined,            \* the names the interpolation cell has bound so far
    xi, eta,            \* np.linspace samples, indexed from 0
    xi1, eta1,          \* np.meshgrid arrays
    X, Z,               \* the physical mesh
    it_i, it_j,         \* positions of the two range() iterators
    i, j, Xi, Eta,      \* loop variables
    err,                \* the call that raised, "" when none did
    W,                  \* history: how many times each entry of X, Z was stored
    X2, Z2, W2, pend,   \* a second pass over the nodes, in an arbitrary order
    last2               \* history: the node the second pass processed last

vars == <<NX, NZ, Xb, Xt, Xl, Xr, pc, defined, xi, eta, xi1, eta1, X, Z,
          it_i, it_j, i, j, Xi, Eta, err, W, X2, Z2, W2, pend, last2>>

inputs == <<NX, NZ, Xb, Xt, Xl, Xr>>
pass2 == <<X2, Z2, W2, pend, last2>>

-----------------------------------------------------------------------------
(* Bounds of the model. *)

\* NX and NZ range over -1 .. MaxN.
MaxN == 3
\* In the specification with the second pass, NX and NZ range over 1 .. MaxPerm.
MaxPerm == 2

-----------------------------------------------------------------------------
(* Exact rational arithmetic. *)

Abs(n) == IF n < 0 THEN -n ELSE n

RECURSIVE GCD(_, _)
GCD(a, b) == IF b = 0 THEN a ELSE GCD(b, a % b)

\* n/d in lowest terms, d > 0.
Rat(n, d) ==
    LET g == GCD(Abs(n), d)
    IN  IF n = 0 THEN <<0, 1>> ELSE <<n \div g, d \div g>>

RInt(n) == <<n, 1>>
RAdd(p, q) == Rat(p[1] * q[2] + q[1] * p[2], p[2] * q[2])
RSub(p, q) == Rat(p[1] * q[2] - q[1] * p[2], p[2] * q[2])
RMul(p, q) == Rat(p[1] * q[1], p[2] * q[2])

Zero == RInt(0)
One == RInt(1)

-----------------------------------------------------------------------------
(* The NumPy calls the cell makes.  A vector is a function on 0 .. n-1; a  *)
(* 2-D array is a record of its shape and its entries, so that an array    *)
(* with an empty axis still has a shape.                                   *)

Size(v) == Cardinality(DOMAIN v)

Idx(n, m) == (0 .. n - 1) \X (0 .. m - 1)

At(A, a, b) == A.data[<<a, b>>]

\* np.linspace(0.0, 1.0, num=num) raises ValueError for a negative num.
linspaceRaises(num) == num < 0

\* np.linspace(0.0, 1.0, num=num, endpoint=False): the samples k/num.
linspaceOpen(num) == [k \in 0 .. num - 1 |-> Rat(k, num)]

\* np.linspace(0.0, 1.0, num=num): num samples k/(num-1); the single sample
\* of num = 1 is the start, 0.0.
linspace(num) ==
    [k \in 0 .. num - 1 |-> IF num - 1 > 0 THEN Rat(k, num - 1) ELSE Zero]

\* np.meshgrid(x, y, indexing='ij'): the first index runs over x.
meshgridIJ(x, y) ==
    <<[shape |-> <<Size(x), Size(y)>>,
       data  |-> [p \in Idx(Size(x), Size(y)) |-> x[p[1]]]],
      [shape |-> <<Size(x), Size(y)>>,
       data  |-> [p \in Idx(Size(x), Size(y)) |-> y[p[2]]]]>>

\* np.meshgrid(x, y) with the default indexing='xy': both results have
\* shape (len(y), len(x)); the first repeats x along its rows, the second
\* repeats y along its columns.
meshgrid(x, y) ==
    <<[shape |-> <<Size(y), Size(x)>>,
       data  |-> [p \in Idx(Size(y), Size(x)) |-> x[p[2]]]],
      [shape |-> <<Size(y), Size(x)>>,
       data  |-> [p \in Idx(Size(y), Size(x)) |-> y[p[1]]]]>>

\* np.zeros((NZ, NX)): the two axes exchanged.
zerosSwapped(n, m) == [shape |-> <<m, n>>, data |-> [p \in Idx(m, n) |-> Zero]]

\* np.zeros((n, m)).
zeros(n, m) == [shape |-> <<n, m>>, data |-> [p \in Idx(n, m) |-> Zero]]

\* A[a, 0] = v: the second index dropped.
StoreFirstColumn(A, a, b, v) == [A EXCEPT !.data[<<a, 0>>] = v]

\* A[a, b] = v.
Store(A, a, b, v) == [A EXCEPT !.data[<<a, b>>] = v]

\* The value a name holds before the cell binds it (the name is then not
\* in "defined").
NoVector == <<>>
NoArray == [shape |-> <<0, 0>>, data |-> <<>>]

-----------------------------------------------------------------------------
(* Boundary curves.  The notebook calls Xb, Xt, Xl, Xr with one scalar and *)
(* indexes the result with [0] and [1]; it leaves their definition to the  *)
(* reader.  A curve here is p0*(1-s) + p1*s + k*s*(1-s) per component,     *)
(* with integer points p0, p1 and an integer bulge k: the edges of the     *)
(* unit square (k = 0) and the quadratic curves of "The Swan" are of this  *)
(* form.  "bad" says where calling the curve raises: "all" is a name that  *)
(* was never defined (NameError), "zero" raises at s = 0, "half" raises at *)
(* s = 1/2 only, "upper" raises for s >= 1/2, "one" raises at s = 1,       *)
(* "none" is a total curve.                                                *)

Raises(c, s) ==
    CASE c.bad = "all"   -> TRUE
      [] c.bad = "zero"  -> s = Zero
      [] c.bad = "half"  -> s = <<1, 2>>
      [] c.bad = "upper" -> 2 * s[1] >= s[2]
      [] c.bad = "one"   -> s = One
      [] OTHER           -> FALSE

\* Component n (1 for x, 2 for z) of the curve at s.
CurveComp(c, n, s) ==
    RAdd(RAdd(RMul(RInt(c.p0[n]), RSub(One, s)), RMul(RInt(c.p1[n]), s)),
         RMul(RInt(c.k[n]), RMul(s, RSub(One, s))))

\* The pair the call c(s) returns when it does not raise.
Eval(c, s) == <<CurveComp(c, 1, s), CurveComp(c, 2, s)>>

-----------------------------------------------------------------------------
(* The interpolation statement, for component n (1 for [0], 2 for [1]).    *)

\* The correction term for the four corners left out.
InterpNoCorners(n, vXi, vEta, xb, xb0, xb1, xt, xt0, xt1, xl, xr) ==
    RAdd(RAdd(RAdd(RMul(RSub(One, vEta), xb[n]), RMul(vEta, xt[n])),
              RMul(RSub(One, vXi), xl[n])),
         RMul(vXi, xr[n]))

\* xt0 and xt1 exchanged in the correction term.
InterpSwapTop(n, vXi, vEta, xb, xb0, xb1, xt, xt0, xt1, xl, xr) ==
    RSub(RAdd(RAdd(RAdd(RMul(RSub(One, vEta), xb[n]), RMul(vEta, xt[n])),
                   RMul(RSub(One, vXi), xl[n])),
              RMul(vXi, xr[n])),
         RAdd(RAdd(RAdd(RMul(RMul(vXi, vEta), xt0[n]),
                        RMul(RMul(vXi, RSub(One, vEta)), xb1[n])),
                   RMul(RMul(vEta, RSub(One, vXi)), xt1[n])),
              RMul(RMul(RSub(One, vXi), RSub(One, vEta)), xb0[n])))

\* xl and xr exchanged.
InterpSwapSides(n, vXi, vEta, xb, xb0, xb1, xt, xt0, xt1, xl, xr) ==
    RSub(RAdd(RAdd(RAdd(RMul(RSub(One, vEta), xb[n]), RMul(vEta, xt[n])),
                   RMul(RSub(One, vXi), xr[n])),
              RMul(vXi, xl[n])),
         RAdd(RAdd(RAdd(RMul(RMul(vXi, vEta), xt1[n]),
                        RMul(RMul(vXi, RSub(One, vEta)), xb1[n])),
                   RMul(RMul(vEta, RSub(One, vXi)), xt0[n])),
              RMul(RMul(RSub(One, vXi), RSub(One, vEta)), xb0[n])))

\* (1-Eta) * xb[n] + Eta * xt[n] + (1-Xi) * xl[n] + Xi * xr[n]
\*   - (Xi * Eta * xt1[n] + Xi * (1-Eta) * xb1[n] + Eta * (1-Xi) * xt0[n]
\*      + (1-Xi) * (1-Eta) * xb0[n])
Interp(n, vXi, vEta, xb, xb0, xb1, xt, xt0, xt1, xl, xr) ==
    RSub(RAdd(RAdd(RAdd(RMul(RSub(One, vEta), xb[n]), RMul(vEta, xt[n])),
                   RMul(RSub(One, vXi), xl[n])),
              RMul(vXi, xr[n])),
         RAdd(RAdd(RAdd(RMul(RMul(vXi, vEta), xt1[n]),
                        RMul(RMul(vXi, RSub(One, vEta)), xb1[n])),
                   RMul(RMul(vEta, RSub(One, vXi)), xt0[n])),
              RMul(RMul(RSub(One, vXi), RSub(One, vEta)), xb0[n])))

\* The first of the eight calls of the loop body that raises, in the order
\* the body makes them: Xb(Xi), Xb(0), Xb(1), Xt(Xi), Xt(0), Xt(1), Xl(Eta),
\* Xr(Eta); "" when none does.
FirstRaise(cb, ct, cl, cr, vXi, vEta) ==
    IF Raises(cb, vXi) \/ Raises(cb, Zero) \/ Raises(cb, One) THEN "Xb"
    ELSE IF Raises(ct, vXi) \/ Raises(ct, Zero) \/ Raises(ct, One) THEN "Xt"
    ELSE IF Raises(cl, vEta) THEN "Xl"
    ELSE IF Raises(cr, vEta) THEN "Xr"
    ELSE ""

\* The curves called with the wrong parameter: bottom and top at Eta,
\* left and right at Xi.
NodeValueSwapArgs(n, cb, ct, cl, cr, vXi, vEta) ==
    Interp(n, vXi, vEta,
           Eval(cb, vEta), Eval(cb, Zero), Eval(cb, One),
           Eval(ct, vEta), Eval(ct, Zero), Eval(ct, One),
           Eval(cl, vXi), Eval(cr, vXi))

\* The value the body stores for component n at (vXi, vEta).
NodeValue(n, cb, ct, cl, cr, vXi, vEta) ==
    Interp(n, vXi, vEta,
           Eval(cb, vXi), Eval(cb, Zero), Eval(cb, One),
           Eval(ct, vXi), Eval(ct, Zero), Eval(ct, One),
           Eval(cl, vEta), Eval(cr, vEta))

-----------------------------------------------------------------------------
(* The inputs.  Each of the eight curve endpoints is either the corner of  *)
(* the unit square it belongs to or a displaced point, chosen on its own,  *)
(* so that two curves meeting at a corner may or may not agree there.      *)

Corner(a, b, moved) == IF moved THEN <<3 * a - 1, 2 * b + 1>> ELSE <<a, b>>

\* Bulges of the bottom, top, left and right curve: straight edges, the
\* swan (top z = 1 - 3s + 3s^2, right x = 1 + 2s - 2s^2), and four
\* different bulges.
Bulges ==
    { <<<<0, 0>>, <<0, 0>>, <<0, 0>>, <<0, 0>>>>,
      <<<<0, 0>>, <<0, -3>>, <<0, 0>>, <<2, 0>>>>,
      <<<<1, -2>>, <<-1, 3>>, <<2, 1>>, <<-2, -1>>>> }

Curve(p0, p1, k, bad) == [p0 |-> p0, p1 |-> p1, k |-> k, bad |-> bad]

\* The four curves with endpoint choice m (eight booleans), bulges k and
\* failure modes f (bottom, top, left, right).
CurveSet(m, k, f) ==
    <<Curve(Corner(0, 0, m[1]), Corner(1, 0, m[2]), k[1], f[1]),
      Curve(Corner(0, 1, m[3]), Corner(1, 1, m[4]), k[2], f[2]),
      Curve(Corner(0, 0, m[5]), Corner(0, 1, m[6]), k[3], f[3]),
      Curve(Corner(1, 0, m[7]), Corner(1, 1, m[8]), k[4], f[4])>>

NoMove == [n \in 1 .. 8 |-> FALSE]
Total == <<"none", "none", "none", "none">>

\* Total curves: every endpoint choice, every bulge set.
TotalCurveSets ==
    { CurveSet(m, k, Total) : m \in [1 .. 8 -> BOOLEAN], k \in Bulges }

\* Curves of which one raises somewhere, and the notebook as it stands,
\* with no curve defined at all.
FailingCurveSets ==
    { CurveSet(NoMove, k, [Total EXCEPT ![c] = b]) :
        k \in Bulges, c \in 1 .. 4, b \in {"all", "zero", "half", "upper", "one"} }
    \cup { CurveSet(NoMove, k, <<"all", "all", "all", "all">>) : k \in Bulges }

\* A few total curve sets for the specification with the second pass.
FewCurveSets ==
    { CurveSet(m, k, Total) :
        m \in { NoMove, [n \in 1 .. 8 |-> TRUE], [n \in 1 .. 8 |-> n % 3 = 1] },
        k \in Bulges }

\* The namespace before the interpolation cell runs, for resolutions in
\* Ns and curves in Cs.
InitWith(Ns, Cs) ==
    /\ NX \in Ns
    /\ NZ \in Ns
    /\ \E cs \in Cs : Xb = cs[1] /\ Xt = cs[2] /\ Xl = cs[3] /\ Xr = cs[4]
    /\ pc = "linspace_xi"
    /\ defined = {}
    /\ xi = NoVector /\ eta = NoVector
    /\ xi1 = NoArray /\ eta1 = NoArray
    /\ X = NoArray /\ Z = NoArray
    /\ it_i = 0 /\ it_j = 0
    /\ i = 0 /\ j = 0 /\ Xi = Zero /\ Eta = Zero
    /\ err = ""
    /\ W = <<>>
    /\ X2 = NoArray /\ Z2 = NoArray /\ W2 = <<>> /\ pend = {} /\ last2 = <<>>

Init == InitWith(-1 .. MaxN, TotalCurveSets \cup FailingCurveSets)

-----------------------------------------------------------------------------
(* The interpolation cell, statement by statement.                         *)

\* xi = np.linspace(0.0, 1.0, num=NX)
LinspaceXi ==
    /\ pc = "linspace_xi"
    /\ IF linspaceRaises(NX)
       THEN /\ pc' = "error"
            /\ err' = "linspace"
            /\ UNCHANGED <<xi, defined>>
       ELSE /\ xi' = linspace(NX)
            /\ defined' = defined \cup {"xi"}
            /\ pc' = "linspace_eta"
            /\ err' = err
    /\ UNCHANGED <<inputs, eta, xi1, eta1, X, Z, it_i, it_j, i, j, Xi, Eta, W, pass2>>

\* eta = np.linspace(0.0, 1.0, num=NZ)
LinspaceEta ==
    /\ pc = "linspace_eta"
    /\ IF linspaceRaises(NZ)
       THEN /\ pc' = "error"
            /\ err' = "linspace"
            /\ UNCHANGED <<eta, defined>>
       ELSE /\ eta' = linspace(NZ)
            /\ defined' = defined \cup {"eta"}
            /\ pc' = "meshgrid"
            /\ err' = err
    /\ UNCHANGED <<inputs, xi, xi1, eta1, X, Z, it_i, it_j, i, j, Xi, Eta, W, pass2>>

\* xi1, eta1 = np.meshgrid(xi, eta)
Meshgrid ==
    /\ pc = "meshgrid"
    /\ xi1' = meshgrid(xi, eta)[1]
    /\ eta1' = meshgrid(xi, eta)[2]
    /\ defined' = defined \cup {"xi1", "eta1"}
    /\ pc' = "zeros_X"
    /\ UNCHANGED <<inputs, xi, eta, X, Z, it_i, it_j, i, j, Xi, Eta, err, W, pass2>>

\* X = np.zeros((NX,NZ))
ZerosX ==
    /\ pc = "zeros_X"
    /\ X' = zeros(NX, NZ)
    /\ W' = [p \in Idx(NX, NZ) |-> 0]
    /\ defined' = defined \cup {"X"}
    /\ pc' = "zeros_Z"
    /\ UNCHANGED <<inputs, xi, eta, xi1, eta1, Z, it_i, it_j, i, j, Xi, Eta, err, pass2>>

\* Z = np.zeros((NX,NZ))
ZerosZ ==
    /\ pc = "zeros_Z"
    /\ Z' = zeros(NX, NZ)
    /\ defined' = defined \cup {"Z"}
    /\ it_i' = 0
    /\ pc' = "for_i"
    /\ UNCHANGED <<inputs, xi, eta, xi1, eta1, X, it_j, i, j, Xi, Eta, err, W, pass2>>

\* for i in range(NX):  Xi = xi[i]
ForI ==
    /\ pc = "for_i"
    /\ IF it_i < NX
       THEN /\ i' = it_i
            /\ it_i' = it_i + 1
            /\ Xi' = xi[it_i]
            /\ it_j' = 0
            /\ defined' = defined \cup {"i", "Xi"}
            /\ pc' = "for_j"
       ELSE /\ pc' = "done"
            /\ UNCHANGED <<i, it_i, Xi, it_j, defined>>
    /\ UNCHANGED <<inputs, xi, eta, xi1, eta1, X, Z, j, Eta, err, W, pass2>>

\* for j in range(NZ):
ForJ ==
    /\ pc = "for_j"
    /\ IF it_j < NZ
       THEN /\ j' = it_j
            /\ it_j' = it_j + 1
            /\ defined' = defined \cup {"j"}
            /\ pc' = "body"
       ELSE /\ pc' = "for_i"
            /\ UNCHANGED <<j, it_j, defined>>
    /\ UNCHANGED <<inputs, xi, eta, xi1, eta1, X, Z, it_i, i, Xi, Eta, err, W, pass2>>

\* Eta = eta[j]; the eight curve calls; X[i,j] = ...; Z[i,j] = ...
Body ==
    /\ pc = "body"
    /\ Eta' = eta[j]
    /\ defined' = defined \cup {"Eta"}
    /\ IF FirstRaise(Xb, Xt, Xl, Xr, Xi, eta[j]) # ""
       THEN /\ pc' = "error"
            /\ err' = FirstRaise(Xb, Xt, Xl, Xr, Xi, eta[j])
            /\ UNCHANGED <<X, Z, W>>
       ELSE /\ X' = Store(X, i, j, NodeValue(1, Xb, Xt, Xl, Xr, Xi, eta[j]))
            /\ Z' = Store(Z, i, j, NodeValue(2, Xb, Xt, Xl, Xr, Xi, eta[j]))
            /\ W' = [W EXCEPT ![<<i, j>>] = @ + 1]
            /\ pc' = "for_j"
            /\ err' = err
    /\ UNCHANGED <<inputs, xi, eta, xi1, eta1, it_i, it_j, i, j, Xi, pass2>>

Next ==
    \/ LinspaceXi
    \/ LinspaceEta
    \/ Meshgrid
    \/ ZerosX
    \/ ZerosZ
    \/ ForI
    \/ ForJ
    \/ Body

Spec == Init /\ [][Next]_vars

-----------------------------------------------------------------------------
(* A second pass over the same nodes in an arbitrary order, with the same  *)
(* loop body, into arrays of its own.  The notebook runs the nodes in the  *)
(* order of its two loops only; the second pass is what a reordering or a  *)
(* parallel map of the loop body would compute.                            *)

\* X2, Z2 = np.zeros((NX,NZ)), once the cell has completed.
SecondStart ==
    /\ pc = "done"
    /\ "X2" \notin defined
    /\ X2' = zeros(NX, NZ)
    /\ Z2' = zeros(NX, NZ)
    /\ W2' = [p \in Idx(NX, NZ) |-> 0]
    /\ pend' = Idx(NX, NZ)
    /\ last2' = last2
    /\ defined' = defined \cup {"X2", "Z2"}
    /\ UNCHANGED <<inputs, pc, xi, eta, xi1, eta1, X, Z, it_i, it_j, i, j, Xi, Eta,
                   err, W>>

\* The loop headers and the loop body at any node p not yet processed:
\* i = p[0]; Xi = xi[i]; j = p[1]; Eta = eta[j]; the eight curve calls;
\* X2[i,j] = ...; Z2[i,j] = ...
SecondBody ==
    /\ pc = "done"
    /\ "X2" \in defined
    /\ \E p \in pend :
        /\ i' = p[1]
        /\ Xi' = xi[p[1]]
        /\ j' = p[2]
        /\ Eta' = eta[p[2]]
        /\ defined' = defined \cup {"i", "Xi", "j", "Eta"}
        /\ last2' = p
        /\ IF FirstRaise(Xb, Xt, Xl, Xr, xi[p[1]], eta[p[2]]) # ""
           THEN /\ pc' = "error"
                /\ err' = FirstRaise(Xb, Xt, Xl, Xr, xi[p[1]], eta[p[2]])
                /\ UNCHANGED <<X2, Z2, W2, pend>>
           ELSE /\ X2' = Store(X2, p[1], p[2],
                               NodeValue(1, Xb, Xt, Xl, Xr, xi[p[1]], eta[p[2]]))
                /\ Z2' = Store(Z2, p[1], p[2],
                               NodeValue(2, Xb, Xt, Xl, Xr, xi[p[1]], eta[p[2]]))
                /\ W2' = [W2 EXCEPT ![p] = @ + 1]
                /\ pend' = pend \ {p}
                /\ pc' = pc
                /\ err' = err
    /\ UNCHANGED <<inputs, xi, eta, xi1, eta1, X, Z, it_i, it_j, W>>

InitOrder == InitWith(1 .. MaxPerm, FewCurveSets)

NextOrder ==
    \/ Next
    \/ SecondStart
    \/ SecondBody

SpecOrder == InitOrder /\ [][NextOrder]_vars

-----------------------------------------------------------------------------
(* Vocabulary of the properties.                                           *)

Done == pc = "done"
Failed == pc = "error"
Valid == NX >= 2 /\ NZ >= 2

TotalCurves ==
    Xb.bad = "none" /\ Xt.bad = "none" /\ Xl.bad = "none" /\ Xr.bad = "none"

\* bottom(0) = left(0), bottom(1) = right(0), top(0) = left(1), top(1) = right(1).
Consistent ==
    /\ Eval(Xb, Zero) = Eval(Xl, Zero)
    /\ Eval(Xb, One) = Eval(Xr, Zero)
    /\ Eval(Xt, Zero) = Eval(Xl, One)
    /\ Eval(Xt, One) = Eval(Xr, One)

UnitSquare ==
    <<Xb, Xt, Xl, Xr>> =
        CurveSet(NoMove, <<<<0, 0>>, <<0, 0>>, <<0, 0>>, <<0, 0>>>>, Total)

\* The mesh point stored at [a, b].
Point(a, b) == <<At(X, a, b), At(Z, a, b)>>

\* The blending formula for component n at the logical node (s, t):
\* the two edge interpolants minus the bilinear interpolant of the corners.
Formula(n, s, t) ==
    LET alongEta == RAdd(RMul(RSub(One, t), Eval(Xb, s)[n]), RMul(t, Eval(Xt, s)[n]))
        alongXi  == RAdd(RMul(RSub(One, s), Eval(Xl, t)[n]), RMul(s, Eval(Xr, t)[n]))
        corners  ==
            RAdd(RAdd(RMul(RMul(s, t), Eval(Xt, One)[n]),
                      RMul(RMul(s, RSub(One, t)), Eval(Xb, One)[n])),
                 RAdd(RMul(RMul(t, RSub(One, s)), Eval(Xt, Zero)[n]),
                      RMul(RMul(RSub(One, s), RSub(One, t)), Eval(Xb, Zero)[n])))
    IN  RSub(RAdd(alongEta, alongXi), corners)

FormulaPoint(s, t) == <<Formula(1, s, t), Formula(2, s, t)>>

-----------------------------------------------------------------------------
(* C1: after the loop, for every node (i, j) of a resolution nx, nz >= 2,  *)
(* X[i,j] and Z[i,j] hold the value of the blending formula at             *)
(* xi = i/(nx-1), eta = j/(nz-1).                                          *)
C1_LoopStoresFormula ==
    (Done /\ Valid) =>
        \A p \in Idx(NX, NZ) :
            Point(p[1], p[2]) = FormulaPoint(Rat(p[1], NX - 1), Rat(p[2], NZ - 1))

\* A completed 3 x 2 mesh of curved, corner-inconsistent boundaries whose
\* middle node on the top edge is not an integer point.
C1_Witness ==
    /\ Done /\ NX = 3 /\ NZ = 2
    /\ ~Consistent
    /\ Xt.k # <<0, 0>>
    /\ At(Z, 1, 1)[2] # 1

(* C2: with the edges of the unit square as boundary curves and            *)
(* nx, nz >= 2, every node is mapped to itself: X[i,j] = i/(nx-1) and      *)
(* Z[i,j] = j/(nz-1).                                                      *)
C2_IdentityOnUnitSquare ==
    (Done /\ Valid /\ UnitSquare) =>
        \A p \in Idx(NX, NZ) :
            Point(p[1], p[2]) = <<Rat(p[1], NX - 1), Rat(p[2], NZ - 1)>>

\* The uniform 3 x 3 grid: its centre is (1/2, 1/2) and its last node (1, 1).
C2_Witness ==
    /\ Done /\ UnitSquare /\ NX = 3 /\ NZ = 3
    /\ Point(1, 1) = <<<<1, 2>>, <<1, 2>>>>
    /\ Point(2, 2) = <<One, One>>

(* C3: for corner-consistent curves and nx, nz >= 2 the four corner nodes  *)
(* are the endpoints of the bottom and top curves.                         *)
C3_CornerExactness ==
    (Done /\ Valid /\ Consistent) =>
        /\ Point(0, 0) = Eval(Xb, Zero)
        /\ Point(NX - 1, 0) = Eval(Xb, One)
        /\ Point(0, NZ - 1) = Eval(Xt, Zero)
        /\ Point(NX - 1, NZ - 1) = Eval(Xt, One)

\* A completed mesh of consistent curves that are not the unit square's:
\* a displaced corner and curved top and right edges.
C3_Witness ==
    /\ Done /\ Valid /\ Consistent
    /\ Eval(Xt, One) # <<One, One>>
    /\ Xr.k # <<0, 0>>
    /\ Point(NX - 1, NZ - 1) = Eval(Xr, One)

(* C4: for corner-consistent curves and nx, nz >= 2 every node on an edge  *)
(* of the logical square lies on the corresponding boundary curve.         *)
C4_BoundaryReproduction ==
    (Done /\ Valid /\ Consistent) =>
        /\ \A a \in 0 .. NX - 1 :
            /\ Point(a, 0) = Eval(Xb, xi[a])
            /\ Point(a, NZ - 1) = Eval(Xt, xi[a])
        /\ \A b \in 0 .. NZ - 1 :
            /\ Point(0, b) = Eval(Xl, eta[b])
            /\ Point(NX - 1, b) = Eval(Xr, eta[b])

\* A completed 3 x 3 mesh of consistent curves with four different bulges:
\* the middle node of the top edge is off the chord of the top curve.
C4_Witness ==
    /\ Done /\ NX = 3 /\ NZ = 3 /\ Consistent
    /\ Xt.k # <<0, 0>> /\ Xb.k # <<0, 0>> /\ Xl.k # <<0, 0>>
    /\ Point(1, 2) = Eval(Xt, <<1, 2>>)
    /\ Point(1, 2) # <<RMul(<<1, 2>>, RAdd(Eval(Xt, Zero)[1], Eval(Xt, One)[1])),
                       RMul(<<1, 2>>, RAdd(Eval(Xt, Zero)[2], Eval(Xt, One)[2]))>>

(* C5: a resolution nx < 2 or nz < 2 is rejected: the cell ends in an      *)
(* error, never allocates a mesh and never completes.                      *)
C5_InvalidResolutionRejected ==
    (NX < 2 \/ NZ < 2) =>
        /\ ~Done
        /\ "X" \notin defined
        /\ "Z" \notin defined

(* C6: when a curve call of the loop body raises (at a resolution          *)
(* nx, nz >= 2), the cell stops at that node, no later node is evaluated,  *)
(* and no partially filled X, Z is left: the arrays hold no computed       *)
(* value, every entry is as np.zeros made it.                              *)
C6_FailureLeavesNoPartialMesh ==
    (Valid /\ Failed /\ err \in {"Xb", "Xt", "Xl", "Xr"}) =>
        /\ \A p \in Idx(NX, NZ) :
            (p[1] > i \/ (p[1] = i /\ p[2] >= j)) => W[p] = 0
        /\ X = zeros(NX, NZ)
        /\ Z = zeros(NX, NZ)

\* What does hold when a curve call raises: the cell has stopped at node
\* (i, j) with X and Z allocated, every node before it stored once and
\* holding its value, and that node and every later one still zero.
FailureKeepsEarlierNodes ==
    (Failed /\ err \in {"Xb", "Xt", "Xl", "Xr"}) =>
        /\ {"X", "Z"} \subseteq defined
        /\ \A p \in Idx(NX, NZ) :
            IF p[1] < i \/ (p[1] = i /\ p[2] < j)
            THEN W[p] = 1 /\ Point(p[1], p[2]) = FormulaPoint(xi[p[1]], eta[p[2]])
            ELSE W[p] = 0 /\ Point(p[1], p[2]) = <<Zero, Zero>>

\* What does hold of a bad resolution: only a negative count is rejected,
\* by np.linspace, before X or Z is allocated.
NegativeResolutionRejected ==
    /\ (NX < 0 \/ NZ < 0) => (~Done /\ "X" \notin defined /\ "Z" \notin defined)
    /\ Failed /\ err = "linspace" => (NX < 0 \/ NZ < 0)

(* C7: each entry of X and Z is stored exactly once, the value stored for  *)
(* a node is a function of the inputs and the node alone, and a pass over  *)
(* the nodes in any other order ends with the same X and Z.                *)
C7_OrderIndependent ==
    /\ "Z" \in defined =>
        \A p \in Idx(NX, NZ) :
            /\ W[p] <= 1
            /\ W[p] = 1 =>
                Point(p[1], p[2]) = FormulaPoint(xi[p[1]], eta[p[2]])
    /\ Done => \A p \in Idx(NX, NZ) : W[p] = 1
    /\ ("X2" \in defined /\ pend = {}) =>
        /\ X2 = X
        /\ Z2 = Z
        /\ \A p \in Idx(NX, NZ) : W2[p] = 1

\* A second pass over a 2 x 2 mesh of curved boundaries that ended with the
\* node the notebook processes first.
C7_Witness ==
    /\ "X2" \in defined /\ pend = {}
    /\ NX = 2 /\ NZ = 2
    /\ last2 = <<0, 0>>
    /\ ~Consistent
    /\ At(X2, 1, 1) # Zero

(* C8: once allocated, X and Z have shape (nx, nz), first index over the   *)
(* samples of xi and second over the samples of eta, and after completion  *)
(* the entry at [i, j] is the image of the logical node (xi_i, eta_j).     *)
C8_ShapeInvariant ==
    /\ "X" \in defined =>
        /\ X.shape = <<NX, NZ>>
        /\ DOMAIN X.data = (DOMAIN xi) \X (DOMAIN eta)
    /\ "Z" \in defined =>
        /\ Z.shape = <<NX, NZ>>
        /\ DOMAIN Z.data = (DOMAIN xi) \X (DOMAIN eta)
    /\ Done =>
        /\ Size(xi) = NX /\ Size(eta) = NZ
        /\ \A a \in DOMAIN xi : \A b \in DOMAIN eta :
            Point(a, b) = FormulaPoint(xi[a], eta[b])

\* A completed mesh with nx different from nz whose last node differs
\* from its first.
C8_Witness ==
    /\ Done /\ NX = 3 /\ NZ = 2
    /\ X.shape = <<3, 2>> /\ Z.shape = <<3, 2>>
    /\ Point(2, 1) # Point(0, 0)

(* C9 as stated: xi1 and eta1 have the shape of X and Z, and for every     *)
(* index pair (a, b) the mesh point at [a, b] is the image of the logical  *)
(* node (xi1[a,b], eta1[a,b]).                                             *)
C9_IndexAligned ==
    (Done /\ Valid) =>
        /\ xi1.shape = X.shape
        /\ eta1.shape = Z.shape
        /\ \A p \in Idx(NX, NZ) :
            Point(p[1], p[2]) = FormulaPoint(At(xi1, p[1], p[2]), At(eta1, p[1], p[2]))

(* C9 amended: xi1 and eta1 have shape (nz, nx), the transpose of the      *)
(* shape of X and Z, and for every index pair (a, b) the mesh point at     *)
(* [a, b] is the image of the logical node (xi1[b,a], eta1[b,a]).          *)
C9_TransposedAligned ==
    (Done /\ Valid) =>
        /\ xi1.shape = <<NZ, NX>>
        /\ eta1.shape = <<NZ, NX>>
        /\ DOMAIN xi1.data = Idx(NZ, NX)
        /\ DOMAIN eta1.data = Idx(NZ, NX)
        /\ \A p \in Idx(NX, NZ) :
            Point(p[1], p[2]) = FormulaPoint(At(xi1, p[2], p[1]), At(eta1, p[2], p[1]))

\* A completed 3 x 2 mesh: the logical grid arrays are 2 x 3, and the
\* logical node at [1, 2] is (1, 1).
C9_Witness ==
    /\ Done /\ NX = 3 /\ NZ = 2
    /\ xi1.shape = <<2, 3>> /\ X.shape = <<3, 2>>
    /\ At(xi1, 1, 2) = One /\ At(eta1, 1, 2) = One
    /\ Point(2, 1) = Eval(Xr, One)

(* C10: total curves are accepted whether or not they agree at the         *)
(* corners: with nx, nz >= 2 the cell never raises,                       *)
(* the four corner nodes are the endpoints of the left and right curves,   *)
(* and a corner node differs from the endpoint of the bottom or top curve  *)
(* exactly where that curve disagrees with the adjacent side curve.        *)
C10_CornersFollowSides ==
    (TotalCurves /\ Valid) =>
        /\ ~Failed
        /\ Done =>
            /\ Point(0, 0) = Eval(Xl, Zero)
            /\ Point(NX - 1, 0) = Eval(Xr, Zero)
            /\ Point(0, NZ - 1) = Eval(Xl, One)
            /\ Point(NX - 1, NZ - 1) = Eval(Xr, One)
            /\ (Point(0, 0) # Eval(Xb, Zero)) <=> (Eval(Xb, Zero) # Eval(Xl, Zero))
            /\ (Point(NX - 1, 0) # Eval(Xb, One)) <=> (Eval(Xb, One) # Eval(Xr, Zero))
            /\ (Point(0, NZ - 1) # Eval(Xt, Zero)) <=> (Eval(Xt, Zero) # Eval(Xl, One))
            /\ (Point(NX - 1, NZ - 1) # Eval(Xt, One))
                   <=> (Eval(Xt, One) # Eval(Xr, One))

\* A completed mesh whose bottom and left curves disagree at the first
\* corner: the corner node is the left curve's endpoint, not the bottom's.
C10_Witness ==
    /\ Done /\ Valid /\ TotalCurves
    /\ Eval(Xb, Zero) # Eval(Xl, Zero)
    /\ Point(0, 0) = Eval(Xl, Zero)
    /\ Point(0, 0) # Eval(Xb, Zero)

====
